---- MODULE Spec2Model ----
(***************************************************************************)
(* quill: the pattern formatter (PatternFormatter.h) and the record        *)
(* dispatcher (LogRecord.h, LogRecord::backend_process).                   *)
(*                                                                         *)
(* Text is a sequence of one-character strings.  A C string of length len  *)
(* is read at the 0-based indices 0..len, index len being its terminator.  *)
(***************************************************************************)
EXTENDS Integers, Sequences, FiniteSets, TLC

(***************************************************************************)
(* Bounds of the model.                                                    *)
(***************************************************************************)
\* renders issued on one formatter
MaxRenders == 3
\* records dispatched through backend_process in one behaviour
MaxDispatch == 2
\* clone() calls in one behaviour
MaxClones == 1

(***************************************************************************)
(* Text helpers.                                                           *)
(***************************************************************************)
NUL == "\\0"
NL == "\n"
NPOS == -1

\* the characters of s from the 0-based index from (std::string::substr(from))
SubstrFrom(s, from) == SubSeq(s, from + 1, Len(s))

\* the n characters of s from the 0-based index from (std::string::substr(from, n))
Substr(s, from, n) == SubSeq(s, from + 1, from + n)

\* s occurs in text at the 0-based index i
OccursAt(text, s, i) ==
  /\ i >= 0
  /\ i + Len(s) <= Len(text)
  /\ \A k \in 1..Len(s) : text[i + k] = s[k]

\* std::string::find(s, from): the first index >= from where s occurs, or npos
Find(text, s, from) ==
  LET hits == {i \in from..Len(text) : OccursAt(text, s, i)}
  IN IF hits = {} THEN NPOS ELSE CHOOSE i \in hits : \A j \in hits : i <= j

Digit(d) == <<"0", "1", "2", "3", "4", "5", "6", "7", "8", "9">>[d + 1]

RECURSIVE IntToText(_)
\* the decimal text of a non-negative integer
IntToText(n) == IF n < 10 THEN <<Digit(n)>> ELSE IntToText(n \div 10) \o <<Digit(n % 10)>>

\* n as text of exactly w digits, zero padded (n < 10^w)
RECURSIVE Padded(_, _)
Padded(n, w) == IF w = 0 THEN <<>> ELSE Padded(n \div 10, w - 1) \o <<Digit(n % 10)>>

(***************************************************************************)
(* The %(name) tokens of a pattern.                                        *)
(***************************************************************************)
Tok(name) == <<"%", "(">> \o name \o <<")">>

n_message == <<"m", "e", "s", "s", "a", "g", "e">>
n_level_name == <<"l", "e", "v", "e", "l", "_", "n", "a", "m", "e">>
n_logger_name == <<"l", "o", "g", "g", "e", "r", "_", "n", "a", "m", "e">>
n_thread == <<"t", "h", "r", "e", "a", "d">>
n_lineno == <<"l", "i", "n", "e", "n", "o">>
n_filename == <<"f", "i", "l", "e", "n", "a", "m", "e">>
n_pathname == <<"p", "a", "t", "h", "n", "a", "m", "e">>
n_function_name == <<"f", "u", "n", "c", "t", "i", "o", "n", "_", "n", "a", "m", "e">>
n_ascii_time == <<"a", "s", "c", "i", "i", "_", "t", "i", "m", "e">>
n_bogus == <<"b", "o", "g", "u", "s">>

\* "%(message)"
MessageToken == Tok(n_message)

(***************************************************************************)
(* PatternFormatter::_parse_format_pattern (constexpr, evaluated by the    *)
(* compiler on the pattern literal).                                       *)
(***************************************************************************)
\* size_t arithmetic wraps modulo SizeModulus (the width is cut from 64 bits
\* to 30, the widest power of two that TLC's integers hold; patterns are
\* far shorter than either)
SizeModulus == 1073741824

\* the number of characters of the string literal, quill::detail::strlen
StrLen(pattern) == Len(pattern)

\* pattern[i] of the char const*: a character, the terminator at i = len
CharAt(pattern, i) == IF i < Len(pattern) THEN pattern[i + 1] ELSE NUL

\* "(message)": the characters the chain of pattern[++pos] comparisons expects
MessageTail == Tail(MessageToken)

\* how many of the comparisons pattern[++pos] == ... succeed from a '%' at pos
MatchedTail(pattern, pos) ==
  LET ok == {j \in 0..Len(MessageTail) :
               \A i \in 1..j : CharAt(pattern, pos + i) = MessageTail[i]}
  IN CHOOSE j \in ok : \A k \in ok : k <= j

\* the state of the scan before its first iteration (lines 536-540); reads is
\* the set of indices at which the pattern has been read
ParseStart ==
  [pos |-> 0, part_2_found |-> FALSE, part_1_style_counter |-> 0,
   part_3_style_counter |-> 0, reads |-> {}, split |-> NPOS, oob |-> FALSE]

\* one iteration of the while loop (lines 543-567) from a position inside the
\* pattern's storage
ParseStep(pattern, st) ==
  LET pos == st.pos
  IN IF CharAt(pattern, pos) # "%"
       THEN [st EXCEPT !.pos = pos + 1, !.reads = @ \cup {pos}]
     ELSE IF ~st.part_2_found
       THEN LET m == MatchedTail(pattern, pos)
                full == m = Len(MessageTail)
                \* each comparison that is evaluated has advanced pos by one
                adv == IF full THEN m ELSE m + 1
            IN [st EXCEPT !.pos = pos + adv + 1,
                          !.reads = @ \cup (pos..(pos + adv)),
                          !.part_2_found = full,
                          !.split = IF full THEN pos ELSE @,
                          !.part_1_style_counter = IF full THEN @ ELSE @ + 1]
     ELSE [st EXCEPT !.pos = pos + 1, !.reads = @ \cup {pos},
                     !.part_3_style_counter = @ + 1]

RECURSIVE ParseLoop(_, _)
\* while (pos < len - 1), len - 1 in size_t; a read past the terminator is
\* outside the literal's storage and ends the constant evaluation
ParseLoop(pattern, st) ==
  IF ~(st.pos < (StrLen(pattern) - 1) % SizeModulus) THEN st
  ELSE IF st.pos > StrLen(pattern) THEN [st EXCEPT !.oob = TRUE, !.reads = @ \cup {st.pos}]
  ELSE ParseLoop(pattern, ParseStep(pattern, st))

_parse_format_pattern(pattern) == ParseLoop(pattern, ParseStart)

(***************************************************************************)
(* The interpolation engine, fmt::format_to: "{}" takes the next argument, *)
(* "{{" and "}}" are the literal braces.  It appends to the buffer as it   *)
(* scans, so what was appended before an error stays in the buffer.        *)
(***************************************************************************)
RECURSIVE FmtScan(_, _, _, _, _)
FmtScan(out, tmpl, i, args, next) ==
  IF i > Len(tmpl) THEN [out |-> out, ok |-> TRUE]
  ELSE IF tmpl[i] = "{"
    THEN IF i < Len(tmpl) /\ tmpl[i + 1] = "{"
           THEN FmtScan(Append(out, "{"), tmpl, i + 2, args, next)
         ELSE IF i < Len(tmpl) /\ tmpl[i + 1] = "}"
           THEN IF next <= Len(args)
                  THEN FmtScan(out \o args[next], tmpl, i + 2, args, next + 1)
                \* argument index out of range
                ELSE [out |-> out, ok |-> FALSE]
         \* invalid format string
         ELSE [out |-> out, ok |-> FALSE]
  ELSE IF tmpl[i] = "}"
    THEN IF i < Len(tmpl) /\ tmpl[i + 1] = "}"
           THEN FmtScan(Append(out, "}"), tmpl, i + 2, args, next)
         \* unmatched '}' in format string
         ELSE [out |-> out, ok |-> FALSE]
  ELSE FmtScan(Append(out, tmpl[i]), tmpl, i + 1, args, next)

\* fmt::format_to(buffer, tmpl, args...): the buffer afterwards, and whether it
\* returned (ok) or threw fmt::format_error
format_to(buffer, tmpl, args) == FmtScan(buffer, tmpl, 1, args, 1)

(***************************************************************************)
(* The attribute table (PatternFormatter::_select_argument_callback) and   *)
(* the two scans of a pattern part that build a helper's callbacks and     *)
(* its fmt pattern.                                                        *)
(***************************************************************************)
\* the names a %(name) token of part 1 or part 3 may carry
Attributes ==
  {n_ascii_time, n_filename, n_pathname, n_function_name, n_level_name,
   n_lineno, n_logger_name, n_thread}

RECURSIVE ScanCallbacks(_, _, _)
ScanCallbacks(part, from, acc) ==
  LET open == Find(part, <<"%", "(">>, from)
      close == Find(part, <<")">>, open + 2)
      name == Substr(part, open + 2, close - open - 2)
  IN IF open = NPOS THEN [ok |-> TRUE, callbacks |-> acc]
     \* a token that is never closed
     ELSE IF close = NPOS THEN [ok |-> FALSE, callbacks |-> acc]
     \* a name that is not in the attribute table
     ELSE IF name \notin Attributes THEN [ok |-> FALSE, callbacks |-> acc]
     ELSE ScanCallbacks(part, close + 1, Append(acc, name))

\* the callbacks of a pattern part, in the order of its tokens; ok is FALSE
\* when the scan throws
_generate_vector_of_callbacks(part) == ScanCallbacks(part, 0, <<>>)

RECURSIVE RewriteTokens(_, _, _)
RewriteTokens(part, from, acc) ==
  IF from >= Len(part) THEN acc
  ELSE IF OccursAt(part, <<"%", "(">>, from) /\ Find(part, <<")">>, from + 2) # NPOS
    THEN RewriteTokens(part, Find(part, <<")">>, from + 2) + 1, acc \o <<"{", "}">>)
  ELSE IF part[from + 1] \in {"{", "}"}
    THEN RewriteTokens(part, from + 1, acc \o <<part[from + 1], part[from + 1]>>)
  ELSE RewriteTokens(part, from + 1, Append(acc, part[from + 1]))

\* the fmt pattern of a pattern part: every token becomes "{}", the text
\* around the tokens is kept, its braces doubled
_generate_fmt_format_string(part) == RewriteTokens(part, 0, <<>>)

(***************************************************************************)
(* The inputs of a render, and the attribute values the callbacks return.  *)
(***************************************************************************)
\* LogLevel, by rank, and the text of %(level_name)
LevelNames ==
  <<<<"D", "E", "B", "U", "G">>, <<"I", "N", "F", "O">>,
    <<"W", "A", "R", "N", "I", "N", "G">>, <<"E", "R", "R", "O", "R">>>>
LevelDebug == 1
LevelInfo == 2
LevelWarning == 3
LevelError == 4

Sec(timestamp) == timestamp \div 1000000000
SubSec(timestamp) == timestamp % 1000000000

\* strftime("%H:%M:%S") of a whole second (the zone offset taken as zero)
DateText(sec) ==
  Padded((sec \div 3600) % 24, 2) \o <<":">> \o Padded((sec \div 60) % 60, 2)
    \o <<":">> \o Padded(sec % 60, 2)

\* the date text the formatter holds after resolving a timestamp: recomputed
\* only when the whole second differs from the cached one
CachedDate(f, timestamp) ==
  IF f.cached_sec = Sec(timestamp) THEN f._formatted_date ELSE DateText(Sec(timestamp))

\* %(ascii_time): the date text and the nanoseconds (TimestampPrecision::NanoSeconds)
AsciiTime(f, timestamp) == CachedDate(f, timestamp) \o <<".">> \o Padded(SubSec(timestamp), 9)

\* what the callback selected for a name returns for one record
AttrValue(name, f, in) ==
  CASE name = n_ascii_time -> AsciiTime(f, in.timestamp)
    [] name = n_thread -> in.thread_id
    [] name = n_logger_name -> in.logger_name
    [] name = n_level_name -> LevelNames[in.info.level]
    [] name = n_lineno -> IntToText(in.info.lineno)
    [] name = n_filename -> in.info.filename
    [] name = n_pathname -> <<"/">> \o in.info.filename
    [] name = n_function_name -> <<"f">>
    \* a std::function read from outside the vector returns no usable text
    [] OTHER -> <<"?">>

\* the text fmt writes for one message argument (a decimal integer)
ArgText(a) == IntToText(a)

(***************************************************************************)
(* FormatterHelper and PatternFormatter.                                   *)
(***************************************************************************)
\* a null std::unique_ptr<FormatterHelperBase>
NullHelper == [present |-> FALSE, callbacks |-> <<>>, fmt_pattern |-> <<>>]

\* FormatterHelper<TTuple>(tuple_of_callbacks, fmt_pattern)
FormatterHelper(tuple_of_callbacks, fmt_pattern) ==
  [present |-> TRUE, callbacks |-> tuple_of_callbacks, fmt_pattern |-> fmt_pattern]

\* FormatterHelper::format: every callback is called on the record, and the
\* values are interpolated into the helper's fmt pattern
HelperFormat(helper, f, memory_buffer, in) ==
  format_to(memory_buffer, helper.fmt_pattern,
            [i \in 1..Len(helper.callbacks) |-> AttrValue(helper.callbacks[i], f, in)])

\* the formatter's time cache after the callbacks of a helper have run
HelperTouch(helper, f, in) ==
  IF helper.present /\ \E i \in 1..Len(helper.callbacks) : helper.callbacks[i] = n_ascii_time
    THEN [f EXCEPT !._formatted_date = CachedDate(f, in.timestamp),
                   !.cached_sec = Sec(in.timestamp)]
    ELSE f

\* _generate_tuple<N>: callback(0) .. callback(N - 1), each args_callback_collection[i];
\* an index outside the vector reads whatever lies there (garbage)
_generate_tuple(N, args_callback_collection, garbage) ==
  [i \in 1..N |-> IF i <= Len(args_callback_collection)
                    THEN args_callback_collection[i] ELSE garbage]

\* _make_formatter_helper<N>(format_pattern_part)
_make_formatter_helper(N, format_pattern_part, garbage) ==
  LET v == _generate_vector_of_callbacks(format_pattern_part)
  IN IF ~v.ok THEN [threw |-> TRUE, undefined |-> FALSE, helper |-> NullHelper]
     ELSE IF v.callbacks # <<>>
       THEN [threw |-> FALSE, undefined |-> N > Len(v.callbacks),
             helper |-> FormatterHelper(_generate_tuple(N, v.callbacks, garbage),
                                        _generate_fmt_format_string(format_pattern_part))]
     ELSE [threw |-> FALSE, undefined |-> FALSE, helper |-> NullHelper]

\* a PatternFormatter object before its constructor's body runs
NewFormatter ==
  [status |-> "constructing", part_1 |-> NullHelper, part_3 |-> NullHelper,
   _formatted_log_record |-> <<>>, _formatted_date |-> <<>>, cached_sec |-> NPOS,
   undefined |-> FALSE]

\* what is read past the end of the callback vector: some callback of the
\* table, or bytes that are no callable at all
Garbage == Attributes \cup {<<"?">>}

\* PatternFormatter(format_pattern, ...) with _set_pattern<TConstantString>:
\* status is "ill_formed" when the constant evaluation of _parse_format_pattern
\* leaves the literal (the build is rejected), "threw" when the constructor
\* throws, "constructed" otherwise; undefined records a read outside the
\* callback vector
_set_pattern(pattern, garbage) ==
  LET arr == _parse_format_pattern(pattern)
      message_found == Find(pattern, MessageToken, 0)
      pattern_part_1 == Substr(pattern, 0, message_found)
      pattern_part_3 == SubstrFrom(pattern, message_found + Len(MessageToken))
      h1 == _make_formatter_helper(arr.part_1_style_counter, pattern_part_1, garbage)
      h3 == _make_formatter_helper(arr.part_3_style_counter, pattern_part_3, garbage)
  IN IF arr.oob THEN [NewFormatter EXCEPT !.status = "ill_formed"]
     ELSE IF message_found = NPOS THEN [NewFormatter EXCEPT !.status = "threw"]
     ELSE IF h1.threw THEN [NewFormatter EXCEPT !.status = "threw"]
     ELSE IF h3.threw THEN [NewFormatter EXCEPT !.status = "threw", !.part_1 = h1.helper]
     ELSE [NewFormatter EXCEPT !.status = "constructed",
                               !.part_1 = h1.helper, !.part_3 = h3.helper,
                               !.undefined = h1.undefined \/ h3.undefined]

\* a clear that leaves the buffer as it was
ClearKeeps(buffer) == buffer

\* _formatted_log_record.clear()
Clear(buffer) == <<>>

\* a push_back that appends nothing
PushBackNothing(buffer, c) == buffer

\* _formatted_log_record.push_back(c)
PushBack(buffer, c) == Append(buffer, c)

\* one helper's step of format: skipped for a null helper
PartFormat(helper, f, buffer, in) ==
  IF helper.present THEN HelperFormat(helper, f, buffer, in)
  ELSE [out |-> buffer, ok |-> TRUE]

\* PatternFormatter::format(timestamp, thread_id, logger_name, logline_info, args...):
\* the formatter afterwards, and whether the call returned or threw
Format(f, in) ==
  LET b0 == Clear(f._formatted_log_record)
      r1 == PartFormat(f.part_1, f, b0, in)
      f1 == HelperTouch(f.part_1, f, in)
      r2 == format_to(r1.out, in.info.message_format,
                      [i \in 1..Len(in.args) |-> ArgText(in.args[i])])
      r3 == PartFormat(f.part_3, f1, r2.out, in)
      f3 == HelperTouch(f.part_3, f1, in)
  IN IF ~r1.ok THEN [f |-> [f1 EXCEPT !._formatted_log_record = r1.out], returned |-> FALSE]
     ELSE IF ~r2.ok THEN [f |-> [f1 EXCEPT !._formatted_log_record = r2.out], returned |-> FALSE]
     ELSE IF ~r3.ok THEN [f |-> [f3 EXCEPT !._formatted_log_record = r3.out], returned |-> FALSE]
     ELSE [f |-> [f3 EXCEPT !._formatted_log_record = PushBack(r3.out, NL)],
           returned |-> TRUE]

\* PatternFormatter::formatted_log_record()
formatted_log_record(f) == f._formatted_log_record

(***************************************************************************)
(* The patterns and the records the model draws from.                      *)
(***************************************************************************)
\* "%(level_name) %(logger_name) - %(message)"
PatScenario ==
  Tok(n_level_name) \o <<" ">> \o Tok(n_logger_name) \o <<" ", "-", " ">> \o MessageToken
\* "%(message)"
PatBare == MessageToken
\* "%(thread)|%(message)|%(lineno)"
PatBoth == Tok(n_thread) \o <<"|">> \o MessageToken \o <<"|">> \o Tok(n_lineno)
\* "[%(message)]"
PatLiteral == <<"[">> \o MessageToken \o <<"]">>
\* "%(ascii_time) %(message)"
PatTime == Tok(n_ascii_time) \o <<" ">> \o MessageToken
\* "{%(thread)} %(message)"
PatBraces == <<"{">> \o Tok(n_thread) \o <<"}", " ">> \o MessageToken
\* "50% %(thread) %(message)"
PatPercent == <<"5", "0", "%", " ">> \o Tok(n_thread) \o <<" ">> \o MessageToken
\* ""
PatEmpty == <<>>
\* "%(thread) msg"
PatNoMessage == Tok(n_thread) \o <<" ", "m", "s", "g">>
\* "%(messag"
PatCut == <<"%", "(", "m", "e", "s", "s", "a", "g">>
\* "%(bogus) %(message)"
PatUnknown == Tok(n_bogus) \o <<" ">> \o MessageToken

\* "%%(message)"
PatDoubled == <<"%">> \o MessageToken
\* "%(me%(message)"
PatPartial == <<"%", "(", "m", "e">> \o MessageToken
\* "%%(message) %(thread)"
PatDoubledSuffix == <<"%">> \o MessageToken \o <<" ">> \o Tok(n_thread)

\* the pattern literal of the default constructor:
\* "%(ascii_time) [%(thread)] %(filename):%(lineno) LOG_%(level_name) %(logger_name) - %(message)"
DefaultPattern ==
  Tok(n_ascii_time) \o <<" ", "[">> \o Tok(n_thread) \o <<"]", " ">> \o Tok(n_filename)
    \o <<":">> \o Tok(n_lineno) \o <<" ", "L", "O", "G", "_">> \o Tok(n_level_name)
    \o <<" ">> \o Tok(n_logger_name) \o <<" ", "-", " ">> \o MessageToken

Patterns ==
  {PatScenario, PatBare, PatBoth, PatLiteral, PatTime, PatBraces, PatPercent,
   PatEmpty, PatNoMessage, PatCut, PatUnknown, PatDoubled, PatPartial,
   PatDoubledSuffix}

\* LogRecordMetadata of the call site LOG_INFO(logger, "value={}", 42) at line 42
MetaValue ==
  [level |-> LevelInfo, lineno |-> 42, filename |-> <<"a", ".", "c">>,
   message_format |-> <<"v", "a", "l", "u", "e", "=", "{", "}">>]
\* LOG_ERROR(logger, "x") at line 7
MetaError ==
  [level |-> LevelError, lineno |-> 7, filename |-> <<"b", ".", "c">>,
   message_format |-> <<"x">>]
\* LOG_WARNING(logger, "a{}b{}", 7): one argument short of its template
MetaShort ==
  [level |-> LevelWarning, lineno |-> 9, filename |-> <<"a", ".", "c">>,
   message_format |-> <<"a", "{", "}", "b", "{", "}">>]
\* LOG_DEBUG(logger, "d{}", 5) at line 3
MetaDebug ==
  [level |-> LevelDebug, lineno |-> 3, filename |-> <<"a", ".", "c">>,
   message_format |-> <<"d", "{", "}">>]

\* the arguments of one format call
Input(timestamp, thread_id, logger_name, info, args) ==
  [timestamp |-> timestamp, thread_id |-> thread_id, logger_name |-> logger_name,
   info |-> info, args |-> args]

AppName == <<"a", "p", "p">>

Inputs ==
  {Input(1500, <<"7">>, AppName, MetaValue, <<42>>),
   Input(501500, <<"7">>, AppName, MetaValue, <<42>>),
   Input(1000000007, <<"8">>, AppName, MetaError, <<>>),
   Input(1500, <<"7">>, AppName, MetaShort, <<7>>)}

(***************************************************************************)
(* State.                                                                  *)
(***************************************************************************)
VARIABLES
  pattern,    \* the format pattern the formatter is constructed from
  fmtr,       \* the PatternFormatter object
  calls,      \* history: the format calls made on fmtr, with what each left
  arr,        \* what _parse_format_pattern computed for the pattern
  made_by,    \* the constructor fmtr was made by: "default" or "custom"
  loggers,    \* LoggerDetails by logger: name, handlers, backtrace_flush_level
  handlers,   \* the handlers: each its formatter and what was written to it
  storage,    \* BacktraceRecordStorage: logger name -> stored records
  records,    \* the LogRecord objects by address
  clones,     \* history: the clone() calls, with the original at that time
  pc,         \* where backend_process stands
  cur,        \* the locals of the running backend_process
  trace,      \* history: the events of the latest backend_process call
  dispatched  \* backend_process calls started

fvars == <<pattern, fmtr, calls, arr, made_by>>
dvars == <<loggers, handlers, storage, records, clones, pc, cur, trace, dispatched>>
vars == <<pattern, fmtr, calls, arr, made_by, loggers, handlers, storage, records, clones, pc, cur,
          trace, dispatched>>

Unconstructed == [NewFormatter EXCEPT !.status = "none"]

NoCall == [trigger |-> 0, rec |-> 0, thread_id |-> <<>>, timestamp |-> 0, i |-> 0,
           j |-> 0, replaying |-> FALSE, outcome |-> "none"]

FormatterInit ==
  /\ pattern = <<>>
  /\ fmtr = Unconstructed
  /\ calls = <<>>
  /\ arr = ParseStart
  /\ made_by = "none"

Init ==
  /\ FormatterInit
  /\ loggers = <<>>
  /\ handlers = <<>>
  /\ storage = <<>>
  /\ records = <<>>
  /\ clones = <<>>
  /\ pc = "idle"
  /\ cur = NoCall
  /\ trace = <<>>
  /\ dispatched = 0

\* PatternFormatter(QUILL_STRING(p), ...): the constructor runs _set_pattern
Construct(p, garbage) ==
  /\ fmtr.status = "none"
  /\ LET made == _set_pattern(p, garbage)
     IN fmtr' = IF made.undefined /\ garbage \notin Attributes
                  THEN [made EXCEPT !.status = "crashed"]
                  ELSE made
  /\ pattern' = p
  /\ arr' = _parse_format_pattern(p)
  /\ made_by' = "custom"
  /\ UNCHANGED calls
  /\ UNCHANGED dvars

\* PatternFormatter(): the default constructor runs _set_pattern on its literal
ConstructDefault ==
  /\ fmtr.status = "none"
  /\ fmtr' = _set_pattern(DefaultPattern, n_thread)
  /\ pattern' = DefaultPattern
  /\ arr' = _parse_format_pattern(DefaultPattern)
  /\ made_by' = "default"
  /\ UNCHANGED calls
  /\ UNCHANGED dvars

\* a format call on the constructed formatter
Render(in) ==
  /\ fmtr.status = "constructed"
  /\ Len(calls) < MaxRenders
  /\ LET r == Format(fmtr, in)
     IN /\ fmtr' = r.f
        /\ calls' = Append(calls, [in |-> in, returned |-> r.returned,
                                   buffer |-> formatted_log_record(r.f)])
  /\ UNCHANGED <<pattern, arr, made_by>>
  /\ UNCHANGED dvars

Next ==
  \/ \E p \in Patterns, g \in Garbage : Construct(p, g)
  \/ ConstructDefault
  \/ \E in \in Inputs : Render(in)

Spec == Init /\ [][Next]_vars

(***************************************************************************)
(* Claims about the formatter, checked under Spec.                         *)
(***************************************************************************)
\* the pattern does not contain "%(message)"
LacksMessage(p) == \A i \in 0..Len(p) : ~OccursAt(p, MessageToken, i)

\* C1 (as claimed): a formatter made from a pattern without "%(message)", the
\* empty pattern included, is left by an exception thrown in its constructor:
\* no helper is installed and no render has been made on it.
C1_MissingMessageThrows ==
  (fmtr.status # "none" /\ LacksMessage(pattern)) =>
    /\ fmtr.status = "threw"
    /\ ~fmtr.part_1.present /\ ~fmtr.part_3.present
    /\ calls = <<>>

\* what a segment helper renders for one record, alone
SegmentText(helper, in) ==
  IF helper.present
    THEN format_to(<<>>, helper.fmt_pattern,
                   [i \in 1..Len(helper.callbacks) |->
                      AttrValue(helper.callbacks[i], NewFormatter, in)]).out
    ELSE <<>>

\* the message template interpolated with the caller's arguments, alone
MessageText(in) ==
  format_to(<<>>, in.info.message_format, [i \in 1..Len(in.args) |-> ArgText(in.args[i])]).out

\* C2: after every format call that returns, the buffer is the prefix helper's
\* rendering (if there is a prefix helper), the interpolated message, the suffix
\* helper's rendering (if there is one) and one '\n', its last character, with
\* nothing of an earlier render before them.
C2_BufferLayout ==
  \A k \in 1..Len(calls) :
    calls[k].returned =>
      /\ calls[k].buffer =
           SegmentText(fmtr.part_1, calls[k].in) \o MessageText(calls[k].in)
             \o SegmentText(fmtr.part_3, calls[k].in) \o <<NL>>
      /\ calls[k].buffer[Len(calls[k].buffer)] = NL

\* C2's case: a render with a prefix and a suffix helper returns right after a
\* render that threw and left its partial text in the buffer
C2_Witness ==
  \E k \in 2..Len(calls) :
    /\ calls[k].returned /\ ~calls[k - 1].returned
    /\ calls[k - 1].buffer # <<>>
    /\ fmtr.part_1.present /\ fmtr.part_3.present

RECURSIVE Substitute(_, _, _)
\* the text with every %(name) token from index i on replaced by the value of
\* the attribute it names, all other text kept
Substitute(text, i, in) ==
  IF i >= Len(text) THEN <<>>
  ELSE IF OccursAt(text, <<"%", "(">>, i) /\ Find(text, <<")">>, i + 2) # NPOS
    THEN LET close == Find(text, <<")">>, i + 2)
         IN AttrValue(Substr(text, i + 2, close - i - 2), NewFormatter, in)
              \o Substitute(text, close + 1, in)
  ELSE <<text[i + 1]>> \o Substitute(text, i + 1, in)

\* the line the pattern describes for one record
ExpectedLine(p, in) ==
  LET at == Find(p, MessageToken, 0)
  IN Substitute(Substr(p, 0, at), 0, in) \o MessageText(in)
       \o Substitute(SubstrFrom(p, at + Len(MessageToken)), 0, in) \o <<NL>>

\* C3 (as claimed): every render that returns leaves the line the pattern
\* describes: the text before %(message) with its tokens replaced by their
\* values, the message, the text after %(message) likewise, and '\n', also
\* when the text before or after %(message) holds no token.
C3_LiteralTextPreserved ==
  \A k \in 1..Len(calls) :
    calls[k].returned => calls[k].buffer = ExpectedLine(pattern, calls[k].in)

\* C10: two renders of the same inputs on one formatter leave the same buffer
\* contents, whatever was rendered before or between them.
C10_Deterministic ==
  \A j \in 1..Len(calls) : \A k \in 1..Len(calls) :
    (calls[j].in = calls[k].in /\ calls[j].returned /\ calls[k].returned) =>
      calls[j].buffer = calls[k].buffer

\* C10's case: the same inputs rendered twice on a formatter with a time token,
\* a render of another second between the two
C10_Witness ==
  /\ Len(calls) >= 3
  /\ calls[1].in = calls[3].in /\ calls[1].returned /\ calls[3].returned
  /\ Sec(calls[2].in.timestamp) # Sec(calls[1].in.timestamp)
  /\ \E i \in 1..Len(fmtr.part_1.callbacks) : fmtr.part_1.callbacks[i] = n_ascii_time

(***************************************************************************)
(* LogRecord and LogRecord::backend_process.                               *)
(***************************************************************************)
NetName == <<"n", "e", "t">>

\* LogRecord(logger_details, fmt_args...): the metadata is the record's type,
\* the timestamp is the one RecordBase carries
LogRecord(logger_details, meta, fmt_args, timestamp) ==
  [alive |-> TRUE, _logger_details |-> logger_details, _fmt_args |-> fmt_args,
   meta |-> meta, timestamp |-> timestamp]

\* the record's storage after ~LogRecord(), reused by its owner
Destroyed(rec) ==
  [rec EXCEPT !.alive = FALSE, !._fmt_args = [i \in DOMAIN @ |-> 0]]

\* the address the next allocated record gets
NextAddress(recs) == Len(recs) + 1

\* a clone that hands back the record itself
cloneShared(recs, r) == [handle |-> r, records |-> recs]

\* LogRecord::clone(): std::make_unique<LogRecord>(*this), the implicit copy
\* constructor copying the pointer _logger_details and the tuple _fmt_args
clone(recs, r) ==
  [handle |-> NextAddress(recs),
   records |-> Append(recs, LogRecord(recs[r]._logger_details, recs[r].meta,
                                      recs[r]._fmt_args, recs[r].timestamp))]

\* the injected timestamp_callback: the record's timestamp in nanoseconds
timestamp_callback(rec) == rec.timestamp

\* the handler a range-for loop in its k-th iteration, visiting from the back
HandlerAtReversed(hs, k) == hs[Len(hs) + 1 - k]

\* for (auto& handler : _logger_details->handlers()): the handler of the
\* k-th iteration
HandlerAt(hs, k) == hs[k]

\* a loop that ends one handler early
LoopDoneEarly(k, hs) == k >= Len(hs)

\* the range-for loop has visited every handler
LoopDone(k, hs) == k > Len(hs)

\* log_record_metadata.level() >= _logger_details->backtrace_flush_level()
ShouldFlush(level, backtrace_flush_level) == level >= backtrace_flush_level

\* the format call of the forward_tuple_args_to_formatter lambda
RecordInput(rec, thread_id, timestamp, name) ==
  Input(timestamp, thread_id, name, rec.meta, rec._fmt_args)

\* BacktraceRecordStorage::process(logger_name, ...): the records stored
\* under the name, oldest first
Stored(store, logger_name) ==
  LET hit == {k \in 1..Len(store) : store[k].name = logger_name}
  IN IF hit = {} THEN <<>> ELSE store[CHOOSE k \in hit : TRUE].stored

HandlerIds == {1, 2, 3}

\* the formatter each handler was made with
HandlerPatterns == <<PatScenario, PatBoth, PatTime>>

\* the handler lists a logger is attached to in the model
HandlerLists == {<<>>, <<1, 2>>, <<3, 1>>, <<2, 3, 1>>}

\* the records the producers have enqueued (1..3), the records held in the
\* backtrace storage (4..6)
InitialRecords ==
  <<LogRecord(1, MetaValue, <<42>>, 1500),
    LogRecord(1, MetaError, <<>>, 1000000007),
    LogRecord(1, MetaShort, <<7>>, 501500),
    LogRecord(1, MetaDebug, <<5>>, 700),
    LogRecord(1, MetaDebug, <<6>>, 800),
    LogRecord(2, MetaDebug, <<4>>, 900)>>

Queued == {1, 2, 3}

DispatchInit ==
  /\ FormatterInit
  /\ \E hs \in HandlerLists, lvl \in {LevelInfo, LevelError} :
       loggers = <<[name |-> AppName, handlers |-> hs, backtrace_flush_level |-> lvl],
                   [name |-> NetName, handlers |-> <<3>>, backtrace_flush_level |-> LevelError]>>
  /\ handlers = [h \in HandlerIds |->
                   [formatter |-> _set_pattern(HandlerPatterns[h], n_thread),
                    written |-> <<>>]]
  /\ storage = <<[name |-> AppName,
                  stored |-> <<[thread_id |-> <<"9">>, record |-> 4],
                               [thread_id |-> <<"5">>, record |-> 5]>>],
                 [name |-> NetName, stored |-> <<[thread_id |-> <<"1">>, record |-> 6]>>]>>
  /\ records = InitialRecords
  /\ clones = <<>>
  /\ pc = "idle"
  /\ cur = NoCall
  /\ trace = <<>>
  /\ dispatched = 0

\* the LoggerDetails of the record being rendered
Details == loggers[records[cur.rec]._logger_details]

\* a record handle the consumer holds: an enqueued record or a clone
Held(r) == r \in Queued \/ \E c \in 1..Len(clones) : clones[c].handle = r

\* clone() of an enqueued record
Clone(r) ==
  /\ pc = "idle"
  /\ Len(clones) < MaxClones
  /\ r \in Queued /\ records[r].alive
  /\ LET c == clone(records, r)
     IN /\ records' = c.records
        /\ clones' = Append(clones, [handle |-> c.handle, of |-> r, original |-> records[r]])
  /\ UNCHANGED <<loggers, handlers, storage, pc, cur, trace, dispatched>>
  /\ UNCHANGED fvars

\* the original of a clone is destroyed and its storage reused
Destroy(r) ==
  /\ pc = "idle"
  /\ records[r].alive
  /\ \E c \in 1..Len(clones) : clones[c].of = r
  /\ records' = [records EXCEPT ![r] = Destroyed(@)]
  /\ UNCHANGED <<loggers, handlers, storage, clones, pc, cur, trace, dispatched>>
  /\ UNCHANGED fvars

\* backend_process is entered: lines 72-75
BP_Start(r, thread_id) ==
  /\ pc = "idle"
  /\ dispatched < MaxDispatch
  /\ Held(r) /\ records[r].alive
  /\ cur' = [trigger |-> r, rec |-> r, thread_id |-> thread_id,
             timestamp |-> timestamp_callback(records[r]), i |-> 1, j |-> 0,
             replaying |-> FALSE, outcome |-> "running"]
  /\ pc' = "format"
  /\ trace' = <<>>
  /\ dispatched' = dispatched + 1
  /\ UNCHANGED <<loggers, handlers, storage, records, clones>>
  /\ UNCHANGED fvars

\* lines 82-89: the handler's formatter renders the record; an exception of
\* format leaves backend_process
BP_Format ==
  /\ pc = "format"
  /\ ~LoopDone(cur.i, Details.handlers)
  /\ LET h == HandlerAt(Details.handlers, cur.i)
         r == Format(handlers[h].formatter,
                     RecordInput(records[cur.rec], cur.thread_id, cur.timestamp, Details.name))
     IN /\ handlers' = [handlers EXCEPT ![h].formatter = r.f]
        /\ trace' = Append(trace, [ev |-> "format", h |-> h, rec |-> cur.rec,
                                   returned |-> r.returned,
                                   buffer |-> formatted_log_record(r.f),
                                   timestamp |-> cur.timestamp])
        /\ pc' = IF r.returned THEN "write" ELSE "idle"
        /\ cur' = IF r.returned THEN cur ELSE [cur EXCEPT !.outcome = "threw"]
  /\ UNCHANGED <<loggers, storage, records, clones, dispatched>>
  /\ UNCHANGED fvars

\* lines 92-96: the formatter's buffer and the timestamp go to handler->write
BP_Write ==
  /\ pc = "write"
  /\ LET h == HandlerAt(Details.handlers, cur.i)
         buffer == formatted_log_record(handlers[h].formatter)
     IN /\ handlers' = [handlers EXCEPT ![h].written =
                          Append(@, [buffer |-> buffer, timestamp |-> cur.timestamp])]
        /\ trace' = Append(trace, [ev |-> "write", h |-> h, rec |-> cur.rec,
                                   returned |-> TRUE, buffer |-> buffer,
                                   timestamp |-> cur.timestamp])
  /\ cur' = [cur EXCEPT !.i = @ + 1]
  /\ pc' = "format"
  /\ UNCHANGED <<loggers, storage, records, clones, dispatched>>
  /\ UNCHANGED fvars

\* the locals of the visitor's call on the j-th stored record
Replay(c, stored, j) ==
  [c EXCEPT !.rec = stored[j].record, !.thread_id = stored[j].thread_id,
            !.timestamp = timestamp_callback(records[stored[j].record]),
            !.i = 1, !.j = j, !.replaying = TRUE]

\* lines 103-115: after the loop the level is compared with the logger's
\* backtrace flush level, and the storage is asked to replay
BP_Backtrace ==
  /\ pc = "format"
  /\ ~cur.replaying
  /\ LoopDone(cur.i, Details.handlers)
  /\ IF ShouldFlush(records[cur.rec].meta.level, Details.backtrace_flush_level)
       THEN LET stored == Stored(storage, Details.name)
            IN /\ trace' = Append(trace, [ev |-> "process", h |-> 0, rec |-> cur.rec,
                                          returned |-> TRUE, buffer |-> Details.name,
                                          timestamp |-> cur.timestamp])
               /\ IF stored = <<>>
                    THEN /\ pc' = "idle"
                         /\ cur' = [cur EXCEPT !.outcome = "done"]
                    ELSE /\ pc' = "format"
                         /\ cur' = Replay(cur, stored, 1)
       ELSE /\ pc' = "idle"
            /\ cur' = [cur EXCEPT !.outcome = "done"]
            /\ UNCHANGED trace
  /\ UNCHANGED <<loggers, handlers, storage, records, clones, dispatched>>
  /\ UNCHANGED fvars

\* the storage's process goes on to the next stored record, or returns
BP_NextStored ==
  /\ pc = "format"
  /\ cur.replaying
  /\ LoopDone(cur.i, Details.handlers)
  /\ LET stored == Stored(storage, Details.name)
     IN IF cur.j < Len(stored)
          THEN /\ pc' = "format"
               /\ cur' = Replay(cur, stored, cur.j + 1)
          ELSE /\ pc' = "idle"
               /\ cur' = [cur EXCEPT !.outcome = "done"]
  /\ UNCHANGED <<loggers, handlers, storage, records, clones, trace, dispatched>>
  /\ UNCHANGED fvars

DispatchNext ==
  \/ \E r \in 1..Len(records) : Clone(r)
  \/ \E r \in 1..Len(records) : Destroy(r)
  \/ \E r \in 1..Len(records) : BP_Start(r, <<"7">>)
  \/ BP_Format
  \/ BP_Write
  \/ BP_Backtrace
  \/ BP_NextStored

SpecDispatch == DispatchInit /\ [][DispatchNext]_vars

(***************************************************************************)
(* Claims about backend_process and clone, checked under SpecDispatch.     *)
(***************************************************************************)
\* the handlers attached to the logger of the record backend_process was
\* called on
TriggerHandlers == loggers[records[cur.trigger]._logger_details].handlers

Range(seq) == {seq[k] : k \in 1..Len(seq)}

\* the handlers whose formatter was asked to render record r, in the order
\* of the calls
Visited(r) ==
  LET f == SelectSeq(trace, LAMBDA e : e.ev = "format" /\ e.rec = r)
  IN [k \in 1..Len(f) |-> f[k].h]

\* the positions in the trace of the writes of record r to handler h
WritesOf(r, h) ==
  {k \in 1..Len(trace) : trace[k].ev = "write" /\ trace[k].rec = r /\ trace[k].h = h}

\* a backend_process call has been made and has ended
CallEnded == pc = "idle" /\ dispatched > 0

\* C4: in every backend_process call the handlers are visited in the order in
\* which the logger lists them: the handlers visited for a record are always
\* the first handlers of the list, in its order, and all of them when the call
\* returns. The same holds for each record replayed from the backtrace.
C4_DeclaredOrder ==
  dispatched > 0 =>
    \A r \in {trace[k].rec : k \in 1..Len(trace)} \cup {cur.trigger} :
      LET v == Visited(r)
          hs == loggers[records[r]._logger_details].handlers
      IN /\ Len(v) <= Len(hs)
         /\ \A k \in 1..Len(v) : v[k] = hs[k]
         /\ (cur.outcome = "done" /\ (r = cur.trigger \/ Len(v) > 0)) => v = hs

\* C4's case: a second dispatch on a logger whose three handlers are listed
\* in an order that is not the order of their creation has returned
C4_Witness ==
  /\ dispatched = 2 /\ cur.outcome = "done"
  /\ TriggerHandlers = <<2, 3, 1>>
  /\ Visited(cur.trigger) = <<2, 3, 1>>

\* C5 (as claimed): when a backend_process call has ended, write has been
\* called exactly once on each handler attached to the record's logger and on
\* no other handler, each write right after the render of the record by that
\* handler's formatter, with that formatter's buffer and the record's
\* resolved timestamp.
C5_WriteOncePerHandler ==
  CallEnded =>
    \A h \in HandlerIds :
      /\ Cardinality(WritesOf(cur.trigger, h)) = IF h \in Range(TriggerHandlers) THEN 1 ELSE 0
      /\ \A k \in WritesOf(cur.trigger, h) :
           /\ k > 1
           /\ trace[k - 1].ev = "format" /\ trace[k - 1].h = h
           /\ trace[k - 1].rec = cur.trigger /\ trace[k - 1].returned
           /\ trace[k].buffer = trace[k - 1].buffer
           /\ trace[k].timestamp = timestamp_callback(records[cur.trigger])

\* the backtrace storage's process was called in the latest backend_process
ProcessCalled == \E k \in 1..Len(trace) : trace[k].ev = "process"

\* C6 (as claimed): when a backend_process call has ended, the storage's
\* process has been called if and only if the record's level is greater than
\* or equal to the logger's backtrace flush level.
C6_ReplayIffLevel ==
  CallEnded =>
    (ProcessCalled <=>
       records[cur.trigger].meta.level
         >= loggers[records[cur.trigger]._logger_details].backtrace_flush_level)

\* C7: the storage's process call and every render or write of a replayed
\* record come after the triggering record has been written to every handler
\* attached to its logger.
C7_ReplayAfterDelivery ==
  \A k \in 1..Len(trace) :
    (trace[k].ev = "process" \/ trace[k].rec # cur.trigger) =>
      \A h \in Range(TriggerHandlers) :
        \E w \in WritesOf(cur.trigger, h) : w < k

\* C7's case: a stored record has been written during a call on a logger with
\* more than one handler
C7_Witness ==
  /\ dispatched > 0
  /\ Len(TriggerHandlers) >= 2
  /\ \E k \in 1..Len(trace) : trace[k].ev = "write" /\ trace[k].rec # cur.trigger

\* C8 (as claimed): when a backend_process call has ended, every handler
\* listed after one whose render of the record failed has had its own render
\* of the record.
C8_LaterHandlersStillServed ==
  CallEnded =>
    \A k \in 1..Len(trace) :
      (trace[k].ev = "format" /\ trace[k].rec = cur.trigger /\ ~trace[k].returned) =>
        \A p \in 1..Len(TriggerHandlers) :
          (\E q \in 1..(p - 1) : TriggerHandlers[q] = trace[k].h) =>
            \E m \in (k + 1)..Len(trace) :
              /\ trace[m].ev = "format" /\ trace[m].rec = cur.trigger
              /\ trace[m].h = TriggerHandlers[p]

\* what handler h's formatter would leave for a record
Rendering(h, rec) ==
  LET r == Format(handlers[h].formatter,
                  RecordInput(rec, <<"7">>, timestamp_callback(rec),
                              loggers[rec._logger_details].name))
  IN [returned |-> r.returned, buffer |-> formatted_log_record(r.f)]

\* C9: a clone is a new record with the original's Logger Details reference
\* and a copy of its arguments; whatever happens to the original afterwards,
\* every handler renders the clone as it would have rendered the original.
C9_CloneIndependent ==
  \A c \in 1..Len(clones) :
    LET copy == records[clones[c].handle]
    IN /\ clones[c].handle # clones[c].of
       /\ copy.alive
       /\ copy._logger_details = clones[c].original._logger_details
       /\ copy._fmt_args = clones[c].original._fmt_args
       /\ \A h \in HandlerIds : Rendering(h, copy) = Rendering(h, clones[c].original)

\* C9's case: the clone has been dispatched and written after its original was
\* destroyed, and the original's arguments are no longer what they were
C9_Witness ==
  \E c \in 1..Len(clones) :
    /\ ~records[clones[c].of].alive
    /\ records[clones[c].of]._fmt_args # clones[c].original._fmt_args
    /\ cur.trigger = clones[c].handle /\ cur.outcome = "done"
    /\ \E h \in Range(TriggerHandlers) : WritesOf(clones[c].handle, h) # {}

(***************************************************************************)
(* Claims about the default pattern and the scan of the pattern, checked   *)
(* under Spec.                                                             *)
(***************************************************************************)
\* the default pattern as the class documentation gives it:
\* "%(ascii_time) [%(thread)] %(filename):%(lineno) %(level_name) %(logger_name) - %(message)"
DocumentedDefaultPattern ==
  Tok(n_ascii_time) \o <<" ", "[">> \o Tok(n_thread) \o <<"]", " ">> \o Tok(n_filename)
    \o <<":">> \o Tok(n_lineno) \o <<" ">> \o Tok(n_level_name)
    \o <<" ">> \o Tok(n_logger_name) \o <<" ", "-", " ">> \o MessageToken

\* C11 (as claimed): a default-constructed formatter uses the documented
\* default pattern: its prefix helper holds the six callbacks ascii_time,
\* thread, filename, lineno, level_name, logger_name with the fmt pattern
\* "{} [{}] {}:{} {} {} - " (one space between line number and level name),
\* and it has no suffix helper.
C11_DocumentedDefault ==
  made_by = "default" =>
    /\ pattern = DocumentedDefaultPattern
    /\ fmtr.status = "constructed"
    /\ fmtr.part_1.callbacks =
         <<n_ascii_time, n_thread, n_filename, n_lineno, n_level_name, n_logger_name>>
    /\ fmtr.part_1.fmt_pattern =
         <<"{", "}", " ", "[", "{", "}", "]", " ", "{", "}", ":", "{", "}", " ",
           "{", "}", " ", "{", "}", " ", "-", " ">>
    /\ ~fmtr.part_3.present

RECURSIVE CountTokens(_, _)
\* the number of %(name) tokens of a text from index i on
CountTokens(text, i) ==
  IF i >= Len(text) THEN 0
  ELSE IF OccursAt(text, <<"%", "(">>, i) /\ Find(text, <<")">>, i + 2) # NPOS
    THEN 1 + CountTokens(text, Find(text, <<")">>, i + 2) + 1)
  ELSE CountTokens(text, i + 1)

\* the text of a pattern before its first "%(message)", and the text after it
TextBefore(p) == Substr(p, 0, Find(p, MessageToken, 0))
TextAfter(p) == SubstrFrom(p, Find(p, MessageToken, 0) + Len(MessageToken))

RECURSIVE CountPlaceholders(_, _)
\* the number of "{}" placeholders of a fmt pattern from index i on, "{{" and
\* "}}" being escaped braces
CountPlaceholders(text, i) ==
  IF i >= Len(text) THEN 0
  ELSE IF OccursAt(text, <<"{", "{">>, i) \/ OccursAt(text, <<"}", "}">>, i)
    THEN CountPlaceholders(text, i + 2)
  ELSE IF OccursAt(text, <<"{", "}">>, i)
    THEN 1 + CountPlaceholders(text, i + 2)
  ELSE CountPlaceholders(text, i + 1)

Placeholders(helper) == CountPlaceholders(helper.fmt_pattern, 0)

\* C12 (as claimed): for a pattern that contains "%(message)" the first count
\* of _parse_format_pattern is the number of %(name) tokens before
\* "%(message)" and the second the number after it, and a helper's callback
\* tuple has as many entries as its part has tokens and its fmt pattern has
\* placeholders; a '%' that starts no token changes no count.
C12_CountsAreTokens ==
  (made_by # "none" /\ ~LacksMessage(pattern)) =>
    /\ arr.part_1_style_counter = CountTokens(TextBefore(pattern), 0)
    /\ arr.part_3_style_counter = CountTokens(TextAfter(pattern), 0)
    /\ fmtr.part_1.present =>
         /\ Len(fmtr.part_1.callbacks) = CountTokens(TextBefore(pattern), 0)
         /\ Len(fmtr.part_1.callbacks) = Placeholders(fmtr.part_1)
    /\ fmtr.part_3.present =>
         /\ Len(fmtr.part_3.callbacks) = CountTokens(TextAfter(pattern), 0)
         /\ Len(fmtr.part_3.callbacks) = Placeholders(fmtr.part_3)

\* C13 (as claimed): for a pattern that contains "%(message)" the scan of
\* _parse_format_pattern turns from counting prefix tokens to counting suffix
\* tokens at the first occurrence of "%(message)", where _set_pattern cuts the
\* pattern, also when a '%' or a partial match stands right before it.
C13_ScansAgreeOnSplit ==
  (made_by # "none" /\ ~LacksMessage(pattern)) =>
    /\ arr.part_2_found
    /\ arr.split = Find(pattern, MessageToken, 0)

\* C14 (as claimed): for every pattern, the empty one included, the scan of
\* _parse_format_pattern ends having read the pattern only at indices 0..len.
C14_ReadsInsideLiteral ==
  made_by # "none" =>
    /\ ~arr.oob
    /\ \A i \in arr.reads : 0 <= i /\ i <= StrLen(pattern)

====
